---- MODULE Spec2Model ----
(***************************************************************************)
(* A model of check_bipm_data/check.py.                                    *)
(*                                                                         *)
(* Spec     : the batch driver of main (lines 109-112) calling             *)
(*            parse_clockfile (lines 22-90) on each file of the batch.     *)
(*            Lines are byte strings (sequences of 0..255); the two        *)
(*            regular expressions, the column slices and int()/float()     *)
(*            are computed on the bytes.                                   *)
(* SpecMain : the per-clock loop of main (lines 114-174): step correction  *)
(*            and differencing over the two tables built from the parsed   *)
(*            records.  Numbers are exact fixed-point integers.            *)
(***************************************************************************)
EXTENDS Integers, Sequences, FiniteSets, TLC

VARIABLES
    \* ---- parse_clockfile and the batch loop of main
    pc,         \* "main" | "parsing" | "done" | "raised"; in SpecMain "loop" | "end"
    files,      \* the files of the batch met so far: [exists, lines], lines (by name) as read so far
    diffs,      \* diffs_raw : list of [lab_code, clock_code, mjd, value]
    jumps,      \* jumps_raw : list of [lab_code, lab_acronym, clock_code, mjd, time_step, freq_step]
    log,        \* the records handed to logging, in order
    locals,     \* parse_clockfile's locals that outlive a line: mjd, lab_code, lab_acronym
    i,          \* parse_clockfile's local i
    last,       \* history: the kind of the latest step, and diffs, jumps, log as they were before it
    \* ---- the per-clock loop of main
    values,     \* DataFrame values : rows [idx, clock_code, mjd, val]
    steps,      \* DataFrame steps  : rows [idx, clock_code, mjd, time_step, freq_step]
    cidx,       \* number of clocks of clock_list already processed
    result      \* to_be_concatenated, flattened: rows [idx, clock_code, mjd, val, na, type, corrected]

parseVars == <<files, diffs, jumps, log, locals, i, last>>
mainVars == <<values, steps, cidx, result>>
vars == <<pc, files, diffs, jumps, log, locals, i, last, values, steps, cidx, result>>

\* At most MaxFiles paths in the batch, holding at most MaxLines lines in total.
MaxFiles == 2
MaxLines == 3
\* At most MaxSamples clock-value records and MaxJumps jump records in the tables.
MaxSamples == 3
MaxJumps == 2

(***************************************************************************)
(* Bytes, slices and the two regular expressions                           *)
(***************************************************************************)
Min(S) == CHOOSE x \in S : \A y \in S : x <= y
Max(S) == CHOOSE x \in S : \A y \in S : x >= y

Digit == 48..57                                    \* \d on decoded ASCII text
Space == {9, 10, 11, 12, 13, 28, 29, 30, 31, 32}   \* \s
Word == Digit \cup 65..90 \cup 97..122 \cup {95}   \* \w
Upper == 65..90                                    \* [A-Z]
Blank == {9, 10, 11, 12, 13, 32}                   \* what int() and float() strip
IsDigit(c) == c \in Digit

\* line.decode('ascii') succeeds
IsAscii(line) == \A k \in 1..Len(line) : line[k] < 128

\* line.decode('ascii', errors='ignore'); equals the strict decode when that succeeds
DecodeIgnore(line) == SelectSeq(line, LAMBDA c : c < 128)

\* s[a:b] of Python, 0 <= a <= b
Slice(s, a, b) == SubSeq(s, a + 1, IF b < Len(s) THEN b ELSE Len(s))

\* Regex matching by position: a position is the 1-based index of the next
\* character to match, 0 once the match has failed.  Each X+ of the two
\* patterns is followed by a class disjoint from X, so the greedy run decides.
Run(s, p, C) ==
    CHOOSE q \in p..(Len(s) + 1) :
        /\ \A k \in p..(q - 1) : s[k] \in C
        /\ q = Len(s) + 1 \/ s[q] \notin C

ReExact(s, p, n, C) ==
    IF p > 0 /\ p + n - 1 <= Len(s) /\ \A k \in p..(p + n - 1) : s[k] \in C
    THEN p + n ELSE 0

RePlus(s, p, C) ==
    IF p = 0 THEN 0 ELSE LET q == Run(s, p, C) IN IF q > p THEN q ELSE 0

ReChar(s, p, c) == IF p > 0 /\ p <= Len(s) /\ s[p] = c THEN p + 1 ELSE 0

ReOptSign(s, p) ==
    IF p = 0 THEN 0 ELSE IF p <= Len(s) /\ s[p] \in {43, 45} THEN p + 1 ELSE p

\* [+-]?\d+\.\d+
ReNumber(s, p) ==
    RePlus(s, ReChar(s, RePlus(s, ReOptSign(s, p), Digit), 46), Digit)

\* re.match(minimal_clock_regex, s):  ^\d{5}\s+\d{5}\s+\d{7}\s+[+-]?\d+\.\d+
minimal_clock_regex(s) ==
    LET p1 == RePlus(s, ReExact(s, 1, 5, Digit), Space)
        p2 == RePlus(s, ReExact(s, p1, 5, Digit), Space)
        p3 == RePlus(s, ReExact(s, p2, 7, Digit), Space)
    IN  ReNumber(s, p3) > 0

\* re.match(jump_regex, s):
\*   ^\d{5}\.\d+\s+\d{7}\s+[+-]?\d+\.\d+\s+[+-]?\d+\.\d+\s+\w+\s+\d{5}
jump_regex(s) ==
    LET p1 == RePlus(s, RePlus(s, ReChar(s, ReExact(s, 1, 5, Digit), 46), Digit), Space)
        p2 == RePlus(s, ReExact(s, p1, 7, Digit), Space)
        p3 == RePlus(s, ReNumber(s, p2), Space)
        p4 == RePlus(s, ReNumber(s, p3), Space)
        p5 == RePlus(s, RePlus(s, p4, Word), Space)
    IN  ReExact(s, p5, 5, Digit) > 0

\* re.match(r'[A-Z]+', s)
AcronymMatch(s) == Len(s) > 0 /\ s[1] \in Upper

(***************************************************************************)
(* int() and float() of a column slice, on ASCII text.                     *)
(* Both strip blanks, take an optional sign and let single underscores     *)
(* stand between two digits.  float() also takes an exponent, inf,         *)
(* infinity and nan (in any case).                                         *)
(* An int n is n.  A float is [cls, num, frac]: cls "finite" is the        *)
(* decimal num * 10^-frac in one canonical form, so that equal floats are  *)
(* equal records (0.0 and -0.0 are one value, as for ==); cls "inf" has    *)
(* num = 1 or -1; cls "nan" is the one NaN.  A text too large for a double *)
(* converts to inf and one too small to 0.0, as in the program.  A finite  *)
(* record is the shortest decimal that reads back as the double, which is  *)
(* the text's own decimal except on the coarse grid of the smallest        *)
(* doubles.  The widest column holds 9 characters, so a mantissa has at    *)
(* most 9 digits, and at most 4 when the text is below 1e-300.             *)
(***************************************************************************)
Strip(s) ==
    LET keep == {k \in 1..Len(s) : s[k] \notin Blank}
    IN  IF keep = {} THEN <<>> ELSE SubSeq(s, Min(keep), Max(keep))

RECURSIVE DigitsVal(_)
DigitsVal(s) ==
    IF s = <<>> THEN 0
    ELSE 10 * DigitsVal(SubSeq(s, 1, Len(s) - 1)) + (s[Len(s)] - 48)

Unsigned(s) == IF s # <<>> /\ s[1] \in {43, 45} THEN Tail(s) ELSE s
SignOf(s) == IF s # <<>> /\ s[1] = 45 THEN -1 ELSE 1

\* Underscore grouping: every '_' stands between two digits.
Grouped(s) ==
    \A k \in 1..Len(s) :
        s[k] = 95 => /\ k > 1 /\ k < Len(s)
                     /\ s[k - 1] \in Digit /\ s[k + 1] \in Digit
Ungroup(s) == SelectSeq(s, LAMBDA c : c # 95)
AllDigits(s) == s # <<>> /\ \A k \in 1..Len(s) : IsDigit(s[k])

\* int(s): [ok |-> raised no ValueError, val |-> the value]
IntOfBody(sign, body) ==
    IF Grouped(body) /\ AllDigits(Ungroup(body))
    THEN [ok |-> TRUE, val |-> sign * DigitsVal(Ungroup(body))]
    ELSE [ok |-> FALSE, val |-> 0]
IntOf(t) == IntOfBody(SignOf(t), Unsigned(t))
ParseInt(s) == IntOf(Strip(s))

RECURSIVE Pow10(_)
Pow10(n) == IF n = 0 THEN 1 ELSE 10 * Pow10(n - 1)

RECURSIVE NumDigits(_)
NumDigits(n) == IF n < 10 THEN 1 ELSE 1 + NumDigits(n \div 10)

Abs(n) == IF n < 0 THEN -n ELSE n

Finite(num, frac) == [cls |-> "finite", num |-> num, frac |-> frac]
Inf(sign) == [cls |-> "inf", num |-> sign, frac |-> 0]
NaN == [cls |-> "nan", num |-> 0, frac |-> 0]

\* The decimal digits of 2^1074 (324 of them) and of 5^1074 (751 of them).
\* The doubles below 2^-1022 are the multiples of 2^-1074 = 5^1074 / 10^1074.
TwoTo1074 ==
    <<2, 0, 2, 4, 0, 2, 2, 5, 3, 3, 0, 7, 3, 1, 0, 6, 1, 8, 3, 5, 2, 4, 9,
      5, 3, 4, 6, 7, 1, 8, 9, 1, 7, 3, 0, 7, 0, 4, 9, 5, 5, 6, 6, 4, 9, 7,
      6, 4, 1, 4, 2, 1, 1, 8, 3, 5, 6, 9, 0, 1, 3, 5, 8, 0, 2, 7, 4, 3, 0,
      3, 3, 9, 5, 6, 7, 9, 9, 5, 3, 4, 6, 8, 9, 1, 9, 6, 0, 3, 8, 3, 7, 0,
      1, 4, 3, 7, 1, 2, 4, 4, 9, 5, 1, 8, 7, 0, 7, 7, 8, 6, 4, 3, 1, 6, 8,
      1, 1, 9, 1, 1, 3, 8, 9, 8, 0, 8, 7, 3, 7, 3, 8, 5, 7, 9, 3, 4, 7, 6,
      8, 6, 7, 0, 1, 3, 3, 9, 9, 9, 4, 0, 7, 3, 8, 5, 0, 9, 9, 2, 1, 5, 1,
      7, 4, 2, 4, 2, 7, 6, 5, 6, 6, 3, 6, 1, 3, 6, 4, 4, 6, 6, 9, 0, 7, 7,
      4, 2, 0, 9, 3, 2, 1, 6, 3, 4, 1, 2, 3, 9, 7, 6, 7, 6, 7, 8, 4, 7, 2,
      7, 4, 5, 0, 6, 8, 5, 6, 2, 0, 0, 7, 4, 8, 3, 4, 2, 4, 6, 9, 2, 6, 9,
      8, 6, 1, 8, 1, 0, 3, 3, 5, 5, 6, 4, 9, 1, 5, 9, 5, 5, 6, 3, 4, 0, 8,
      1, 0, 0, 5, 6, 5, 1, 2, 3, 5, 8, 7, 6, 9, 5, 5, 2, 3, 3, 3, 4, 1, 4,
      6, 1, 5, 2, 3, 0, 5, 0, 2, 5, 3, 2, 1, 8, 6, 3, 2, 7, 5, 0, 8, 6, 4,
      6, 0, 0, 6, 2, 6, 3, 3, 0, 7, 7, 0, 7, 7, 4, 1, 0, 9, 3, 4, 9, 4, 7,
      8, 4>>

FiveTo1074 ==
    <<4, 9, 4, 0, 6, 5, 6, 4, 5, 8, 4, 1, 2, 4, 6, 5, 4, 4, 1, 7, 6, 5, 6,
      8, 7, 9, 2, 8, 6, 8, 2, 2, 1, 3, 7, 2, 3, 6, 5, 0, 5, 9, 8, 0, 2, 6,
      1, 4, 3, 2, 4, 7, 6, 4, 4, 2, 5, 5, 8, 5, 6, 8, 2, 5, 0, 0, 6, 7, 5,
      5, 0, 7, 2, 7, 0, 2, 0, 8, 7, 5, 1, 8, 6, 5, 2, 9, 9, 8, 3, 6, 3, 6,
      1, 6, 3, 5, 9, 9, 2, 3, 7, 9, 7, 9, 6, 5, 6, 4, 6, 9, 5, 4, 4, 5, 7,
      1, 7, 7, 3, 0, 9, 2, 6, 6, 5, 6, 7, 1, 0, 3, 5, 5, 9, 3, 9, 7, 9, 6,
      3, 9, 8, 7, 7, 4, 7, 9, 6, 0, 1, 0, 7, 8, 1, 8, 7, 8, 1, 2, 6, 3, 0,
      0, 7, 1, 3, 1, 9, 0, 3, 1, 1, 4, 0, 4, 5, 2, 7, 8, 4, 5, 8, 1, 7, 1,
      6, 7, 8, 4, 8, 9, 8, 2, 1, 0, 3, 6, 8, 8, 7, 1, 8, 6, 3, 6, 0, 5, 6,
      9, 9, 8, 7, 3, 0, 7, 2, 3, 0, 5, 0, 0, 0, 6, 3, 8, 7, 4, 0, 9, 1, 5,
      3, 5, 6, 4, 9, 8, 4, 3, 8, 7, 3, 1, 2, 4, 7, 3, 3, 9, 7, 2, 7, 3, 1,
      6, 9, 6, 1, 5, 1, 4, 0, 0, 3, 1, 7, 1, 5, 3, 8, 5, 3, 9, 8, 0, 7, 4,
      1, 2, 6, 2, 3, 8, 5, 6, 5, 5, 9, 1, 1, 7, 1, 0, 2, 6, 6, 5, 8, 5, 5,
      6, 6, 8, 6, 7, 6, 8, 1, 8, 7, 0, 3, 9, 5, 6, 0, 3, 1, 0, 6, 2, 4, 9,
      3, 1, 9, 4, 5, 2, 7, 1, 5, 9, 1, 4, 9, 2, 4, 5, 5, 3, 2, 9, 3, 0, 5,
      4, 5, 6, 5, 4, 4, 4, 0, 1, 1, 2, 7, 4, 8, 0, 1, 2, 9, 7, 0, 9, 9, 9,
      9, 5, 4, 1, 9, 3, 1, 9, 8, 9, 4, 0, 9, 0, 8, 0, 4, 1, 6, 5, 6, 3, 3,
      2, 4, 5, 2, 4, 7, 5, 7, 1, 4, 7, 8, 6, 9, 0, 1, 4, 7, 2, 6, 7, 8, 0,
      1, 5, 9, 3, 5, 5, 2, 3, 8, 6, 1, 1, 5, 5, 0, 1, 3, 4, 8, 0, 3, 5, 2,
      6, 4, 9, 3, 4, 7, 2, 0, 1, 9, 3, 7, 9, 0, 2, 6, 8, 1, 0, 7, 1, 0, 7,
      4, 9, 1, 7, 0, 3, 3, 3, 2, 2, 2, 6, 8, 4, 4, 7, 5, 3, 3, 3, 5, 7, 2,
      0, 8, 3, 2, 4, 3, 1, 9, 3, 6, 0, 9, 2, 3, 8, 2, 8, 9, 3, 4, 5, 8, 3,
      6, 8, 0, 6, 0, 1, 0, 6, 0, 1, 1, 5, 0, 6, 1, 6, 9, 8, 0, 9, 7, 5, 3,
      0, 7, 8, 3, 4, 2, 2, 7, 7, 3, 1, 8, 3, 2, 9, 2, 4, 7, 9, 0, 4, 9, 8,
      2, 5, 2, 4, 7, 3, 0, 7, 7, 6, 3, 7, 5, 9, 2, 7, 2, 4, 7, 8, 7, 4, 6,
      5, 6, 0, 8, 4, 7, 7, 8, 2, 0, 3, 7, 3, 4, 4, 6, 9, 6, 9, 9, 5, 3, 3,
      6, 4, 7, 0, 1, 7, 9, 7, 2, 6, 7, 7, 7, 1, 7, 5, 8, 5, 1, 2, 5, 6, 6,
      0, 5, 5, 1, 1, 9, 9, 1, 3, 1, 5, 0, 4, 8, 9, 1, 1, 0, 1, 4, 5, 1, 0,
      3, 7, 8, 6, 2, 7, 3, 8, 1, 6, 7, 2, 5, 0, 9, 5, 5, 8, 3, 7, 3, 8, 9,
      7, 3, 3, 5, 9, 8, 9, 9, 3, 6, 6, 4, 8, 0, 9, 9, 4, 1, 1, 6, 4, 2, 0,
      5, 7, 0, 2, 6, 3, 7, 0, 9, 0, 2, 7, 9, 2, 4, 2, 7, 6, 7, 5, 4, 4, 5,
      6, 5, 2, 2, 9, 0, 8, 7, 5, 3, 8, 6, 8, 2, 5, 0, 6, 4, 1, 9, 7, 1, 8,
      2, 6, 5, 5, 3, 3, 4, 4, 7, 2, 6, 5, 6, 2, 5>>

DigitAt(C, j) == IF j < 1 THEN 0 ELSE C[j]

\* floor((A * X + c) / 10^(hi - lo + 1)), X the number written by the digits
\* lo..hi of C (zeros before the first digit of C), A and c small and not
\* negative.  The carry out of the right half is worked out first and goes
\* into the left half.
RECURSIVE CarryOut(_, _, _, _, _)
CarryOut(A, C, lo, hi, c) ==
    IF lo > hi THEN c
    ELSE IF lo = hi THEN (A * DigitAt(C, lo) + c) \div 10
    ELSE LET right == CarryOut(A, C, (lo + hi) \div 2 + 1, hi, c)
         IN  IF right >= 0 THEN CarryOut(A, C, lo, (lo + hi) \div 2, right) ELSE 0

\* the number written by the first n digits of C
RECURSIVE LeadVal(_, _)
LeadVal(C, n) == IF n <= 0 THEN 0 ELSE 10 * LeadVal(C, n - 1) + C[n]

\* floor(A * C / 10^n), C a number given by its digits
FloorScaled(A, C, n) ==
    A * LeadVal(C, Len(C) - n) + CarryOut(A, C, Len(C) - n + 1, Len(C), 0)

\* c * 10^e rounds to the double Grid(c, e) * 2^-1074 (no decimal this short
\* lies half way between two doubles)
Grid(c, e) == (FloorScaled(2 * c, TwoTo1074, -e) + 1) \div 2

\* the integer nearest to k * 2^-1074 / 10^e
Nearest(k, e) == (FloorScaled(2 * k, FiveTo1074, 1074 + e) + 1) \div 2

\* The double k * 2^-1074 as the shortest decimal that reads back as it, the
\* closest to it among those (what repr() prints), looked for from the
\* power of ten e downwards.
RECURSIVE Shortest(_, _, _)
Shortest(sign, k, e) ==
    IF Nearest(k, e) >= 1 /\ Grid(Nearest(k, e), e) = k
    THEN Finite(sign * Nearest(k, e), -e)
    ELSE Shortest(sign, k, e - 1)

\* The double for num * 10^-frac, num of nd digits, the last one not 0.
\* With num = d.ddd * 10^(nd-1): beyond 1.7976931348623158e308 it is inf, up
\* to 2.4703282292062327e-324 it is 0.0.  Below 10^(nd-323) the doubles lie
\* further apart than the decimals of nd digits, so several texts read as one
\* double: the record is that double's shortest decimal.  From there on the
\* text's own decimal is the shortest one.  An integer of at most 9 digits is
\* written out with frac = 0.
Rounded(num, frac, nd) ==
    LET adj == nd - 1 - frac
        lead == IF nd <= 9 THEN Abs(num) * Pow10(9 - nd) ELSE Abs(num) \div Pow10(nd - 9)
    IN  IF adj > 308 \/ (adj = 308 /\ lead > 179769313)
        THEN Inf(IF num < 0 THEN -1 ELSE 1)
        ELSE IF adj < -324 \/ (adj = -324 /\ lead <= 247032822)
        THEN Finite(0, 0)
        ELSE IF adj < nd - 323
        THEN Shortest(IF num < 0 THEN -1 ELSE 1, Grid(Abs(num), -frac), adj + 1)
        ELSE IF frac < 0 /\ nd - frac <= 9
        THEN Finite(num * Pow10(-frac), 0)
        ELSE Finite(num, frac)

\* The double for the decimal num * 10^-frac, in canonical form.
RECURSIVE Dec(_, _)
Dec(num, frac) ==
    IF num = 0 THEN Finite(0, 0)
    ELSE IF num % 10 = 0 THEN Dec(num \div 10, frac - 1)
    ELSE Rounded(num, frac, NumDigits(Abs(num)))

LowerCase(s) == [k \in 1..Len(s) |-> IF s[k] \in Upper THEN s[k] + 32 ELSE s[k]]

\* A mantissa (digits with at most one point, at least one digit) and, when
\* has is TRUE, the text after the e: an optional sign and digits.
FloatOfParts(sign, mant, expo, has) ==
    LET dots == {k \in 1..Len(mant) : mant[k] = 46}
    IN  IF /\ Cardinality(dots) <= 1
           /\ SelectSeq(mant, IsDigit) # <<>>
           /\ \A k \in 1..Len(mant) : IsDigit(mant[k]) \/ mant[k] = 46
           /\ has => AllDigits(Unsigned(expo))
        THEN [ok |-> TRUE,
              val |-> Dec(sign * DigitsVal(SelectSeq(mant, IsDigit)),
                          (IF dots = {} THEN 0 ELSE Len(mant) - Min(dots))
                          - (IF has THEN SignOf(expo) * DigitsVal(Unsigned(expo)) ELSE 0))]
        ELSE [ok |-> FALSE, val |-> Finite(0, 0)]

\* The number u, its grouping underscores gone, split at its first e or E.
FloatOfNumber(sign, u) ==
    LET es == {k \in 1..Len(u) : u[k] \in {69, 101}}
    IN  IF es = {} THEN FloatOfParts(sign, u, <<>>, FALSE)
        ELSE FloatOfParts(sign, SubSeq(u, 1, Min(es) - 1),
                          SubSeq(u, Min(es) + 1, Len(u)), TRUE)

FloatOfBody(sign, body) ==
    IF LowerCase(body) \in {<<105, 110, 102>>, <<105, 110, 102, 105, 110, 105, 116, 121>>}
    THEN [ok |-> TRUE, val |-> Inf(sign)]
    ELSE IF LowerCase(body) = <<110, 97, 110>>
    THEN [ok |-> TRUE, val |-> NaN]
    ELSE IF Grouped(body) THEN FloatOfNumber(sign, Ungroup(body))
    ELSE [ok |-> FALSE, val |-> Finite(0, 0)]

FloatOf(t) == FloatOfBody(SignOf(t), Unsigned(t))

\* float(s): [ok |-> raised no ValueError, val |-> the value]
ParseFloat(s) == FloatOf(Strip(s))

(***************************************************************************)
(* The lines a file may hold.                                              *)
(***************************************************************************)
\* '59000 00100 0001234    +1.250 \n' : one clock slot
ClockOne ==
    <<53, 57, 48, 48, 48, 32, 48, 48, 49, 48, 48, 32, 48, 48, 48, 49, 50, 51,
      52, 32, 32, 32, 32, 43, 49, 46, 50, 53, 48, 32, 10>>

\* '59001 00100 0001234    +1.500 000567X    -0.500 0005678    +2.000 \n'
\* three slots, the middle one with an unreadable clock code
ClockBadSlot ==
    <<53, 57, 48, 48, 49, 32, 48, 48, 49, 48, 48, 32, 48, 48, 48, 49, 50, 51,
      52, 32, 32, 32, 32, 43, 49, 46, 53, 48, 48, 32, 48, 48, 48, 53, 54, 55,
      88, 32, 32, 32, 32, 45, 48, 46, 53, 48, 48, 32, 48, 48, 48, 53, 54, 55,
      56, 32, 32, 32, 32, 43, 50, 46, 48, 48, 48, 32, 10>>

\* '59002 00100 0001234    +1.750 ' + 18 bytes 0xE9 + '\n'
\* one clock slot followed by non-ASCII bytes
ClockLossy ==
    <<53, 57, 48, 48, 50, 32, 48, 48, 49, 48, 48, 32, 48, 48, 48, 49, 50, 51,
      52, 32, 32, 32, 32, 43, 49, 46, 55, 53, 48, 32, 233, 233, 233, 233, 233,
      233, 233, 233, 233, 233, 233, 233, 233, 233, 233, 233, 233, 233, 10>>

\* '59003      00200    0001234  +0.5\n'
\* matches the clock shape with its columns shifted: columns [6,11) are blank
ClockNoLab ==
    <<53, 57, 48, 48, 51, 32, 32, 32, 32, 32, 32, 48, 48, 50, 48, 48, 32, 32,
      32, 32, 48, 48, 48, 49, 50, 51, 52, 32, 32, 43, 48, 46, 53, 10>>

\* '59020 00100 0000001   +1.5e3  000_002       nan 0000003  +1.8e308
\*  0000004    3e-324 0000005    5e-324 \n'
\* five slots written in the other forms int() and float() take: an exponent,
\* underscore grouping, nan, a value beyond the largest double, and two
\* texts that read as the same smallest double
ClockForms ==
    <<53, 57, 48, 50, 48, 32, 48, 48, 49, 48, 48, 32, 48, 48, 48, 48, 48,
      48, 49, 32, 32, 32, 43, 49, 46, 53, 101, 51, 32, 32, 48, 48, 48, 95,
      48, 48, 50, 32, 32, 32, 32, 32, 32, 32, 110, 97, 110, 32, 48, 48,
      48, 48, 48, 48, 51, 32, 32, 43, 49, 46, 56, 101, 51, 48, 56, 32, 48,
      48, 48, 48, 48, 48, 52, 32, 32, 32, 32, 51, 101, 45, 51, 50, 52, 32,
      48, 48, 48, 48, 48, 48, 53, 32, 32, 32, 32, 53, 101, 45, 51, 50, 52,
      32, 10>>

\* '# clock data\n'
Comment ==
    <<35, 32, 99, 108, 111, 99, 107, 32, 100, 97, 116, 97, 10>>

\* '# donn\xe9es\n'
CommentNA ==
    <<35, 32, 100, 111, 110, 110, 233, 101, 115, 10>>

\* '59000.50 0001234 +0.000500 +0.000020    ABCD 00100\n'
JumpOK ==
    <<53, 57, 48, 48, 48, 46, 53, 48, 32, 48, 48, 48, 49, 50, 51, 52, 32, 43,
      48, 46, 48, 48, 48, 53, 48, 48, 32, 43, 48, 46, 48, 48, 48, 48, 50, 48,
      32, 32, 32, 32, 65, 66, 67, 68, 32, 48, 48, 49, 48, 48, 10>>

\* '59001.50 0001234 +0.000250 -0.000010    abcd 00100\n'
JumpLower ==
    <<53, 57, 48, 48, 49, 46, 53, 48, 32, 48, 48, 48, 49, 50, 51, 52, 32, 43,
      48, 46, 48, 48, 48, 50, 53, 48, 32, 45, 48, 46, 48, 48, 48, 48, 49, 48,
      32, 32, 32, 32, 97, 98, 99, 100, 32, 48, 48, 49, 48, 48, 10>>

\* '59002.50 0001234 +0.000500 +0.000020    abcdef 00100\n'
\* the long acronym shifts the lab code out of columns [45,50)
JumpBadLate ==
    <<53, 57, 48, 48, 50, 46, 53, 48, 32, 48, 48, 48, 49, 50, 51, 52, 32, 43,
      48, 46, 48, 48, 48, 53, 48, 48, 32, 43, 48, 46, 48, 48, 48, 48, 50, 48,
      32, 32, 32, 32, 97, 98, 99, 100, 101, 102, 32, 48, 48, 49, 48, 48, 10>>

\* '59000.5 0001234 +0.5 +0.0 ABCD 00100\n'
\* matches the jump shape but is not laid out in the fixed columns
JumpBadEarly ==
    <<53, 57, 48, 48, 48, 46, 53, 32, 48, 48, 48, 49, 50, 51, 52, 32, 43, 48,
      46, 53, 32, 43, 48, 46, 48, 32, 65, 66, 67, 68, 32, 48, 48, 49, 48, 48,
      10>>

\* The alphabet: a file is a sequence of these lines, each held by its name.
LineText ==
    [ClockOne |-> ClockOne, ClockBadSlot |-> ClockBadSlot, ClockLossy |-> ClockLossy,
     ClockNoLab |-> ClockNoLab, ClockForms |-> ClockForms, Comment |-> Comment,
     CommentNA |-> CommentNA, JumpOK |-> JumpOK, JumpLower |-> JumpLower,
     JumpBadLate |-> JumpBadLate, JumpBadEarly |-> JumpBadEarly]

Lines == DOMAIN LineText

(***************************************************************************)
(* parse_clockfile: the body of the loop over the lines of a file.         *)
(* st is the part of the program state a line can change:                  *)
(*   [diffs, jumps, log, locals, i, raised]                                *)
(* raised: an exception that no except clause of the function catches has  *)
(* been raised (UnboundLocalError), which ends the call and, main having   *)
(* no handler, the run.                                                    *)
(* A log record is [level, msg, lineno, file, at]: lineno is <<k>> when    *)
(* the message is formatted with a line number k and <<>> when it has      *)
(* none; file and at are history, the batch position of the file and the   *)
(* 1-based position of the line being processed (0: no line).              *)
(***************************************************************************)
NoLocals ==
    [mjd |-> Dec(0, 0), lab_code |-> 0, lab_acronym |-> <<>>, bound |-> {}]

\* line 54: the slot is skipped when the line is too short for it
SlotTooShort(line, a, start_col) == start_col + 18 > Len(line)

\* Everything the loop body computes from the line alone: the decode, the two
\* matches and the conversions of the column slices (lines 33-79).
Columns(line) ==
    LET a == DecodeIgnore(line)
    IN  [ascii |-> IsAscii(line),
         clock |-> minimal_clock_regex(a),
         jump |-> jump_regex(a),
         mjd |-> ParseInt(Slice(a, 0, 5)),
         lab_code |-> ParseInt(Slice(a, 6, 11)),
         slot |-> [k \in 0..4 |->
                     LET start_col == 12 + k * 18
                     IN  [short |-> SlotTooShort(line, a, start_col),
                          clock_code |-> ParseInt(Slice(a, start_col, start_col + 7)),
                          value |-> ParseFloat(Slice(a, start_col + 8, start_col + 17))]],
         jmjd |-> ParseFloat(Slice(a, 0, 8)),
         jclock_code |-> ParseInt(Slice(a, 9, 16)),
         time_step |-> ParseFloat(Slice(a, 17, 26)),
         freq_step |-> ParseFloat(Slice(a, 27, 36)),
         lab_acronym |-> Slice(a, 40, 44),
         jlab_code |-> ParseInt(Slice(a, 45, 50)),
         textlen |-> Len(a)]

\* Columns of each line of the alphabet, by name
Read == [line \in Lines |-> Columns(LineText[line])]

Emit(st, level, msg, lineno, f, n) ==
    [st EXCEPT !.log = Append(@, [level |-> level, msg |-> msg,
                                  lineno |-> lineno, file |-> f, at |-> n])]

\* A decode step that warns about every line, clean or not.
DecodeWarningAlways(st, r, f, n) ==
    Emit(st, "warning", "Non-ASCII char", <<st.i + 1>>, f, n)

\* lines 32-39: the warning when the strict decode fails
DecodeWarning(st, r, f, n) ==
    IF r.ascii THEN st
    ELSE Emit(st, "warning", "Non-ASCII char", <<st.i + 1>>, f, n)

\* lines 42-49: mjd and lab_code of a clock line
ClockHeader(st, r, f, n) ==
    LET s1 == [st EXCEPT !.locals.mjd = Dec(r.mjd.val, 0),
                         !.locals.bound = @ \cup {"mjd"}]
    IN  IF ~r.mjd.ok
        THEN Emit(st, "error", "Cannot read MJD or labcode", <<st.i>>, f, n)
        ELSE IF ~r.lab_code.ok
        THEN Emit(s1, "error", "Cannot read MJD or labcode", <<s1.i>>, f, n)
        ELSE [s1 EXCEPT !.locals.lab_code = r.lab_code.val,
                        !.locals.bound = @ \cup {"lab_code"}]

\* lines 53-70: one pass of "for i in range(5)"
Slot(st, r, k, f, n) ==
    LET s0 == [st EXCEPT !.i = k]
        c == r.slot[k].clock_code
        v == r.slot[k].value
    IN  IF r.slot[k].short THEN s0
        ELSE IF ~c.ok \/ ~v.ok
        THEN Emit(s0, "error", "Cannot read clock_code or value", <<s0.i>>, f, n)
        ELSE IF {"lab_code", "mjd"} \subseteq s0.locals.bound
        THEN [s0 EXCEPT !.diffs = Append(@, [lab_code |-> s0.locals.lab_code,
                                             clock_code |-> c.val,
                                             mjd |-> s0.locals.mjd,
                                             value |-> v.val])]
        ELSE [s0 EXCEPT !.raised = TRUE]

RECURSIVE SlotLoop(_, _, _, _, _)
SlotLoop(st, r, k, f, n) ==
    IF k = 5 \/ st.raised THEN st
    ELSE SlotLoop(Slot(st, r, k, f, n), r, k + 1, f, n)

\* lines 82-90: the except clause of the jump branch
JumpExcept(st, f, n) ==
    LET e == Emit(st, "error", "Cannot read jump data", <<st.i>>, f, n)
    IN  IF "lab_acronym" \notin e.locals.bound THEN [e EXCEPT !.raised = TRUE]
        ELSE IF ~AcronymMatch(e.locals.lab_acronym)
        THEN Emit(e, "warning", "Check lab acronym", <<>>, f, n)
        ELSE e

\* lines 73-90: a jump line
JumpBranch(st, r, f, n) ==
    LET upto_freq == r.jmjd.ok /\ r.jclock_code.ok /\ r.time_step.ok /\ r.freq_step.ok
        s1 == IF r.jmjd.ok
              THEN [st EXCEPT !.locals.mjd = r.jmjd.val,
                              !.locals.bound = @ \cup {"mjd"}]
              ELSE st
        s2 == IF upto_freq
              THEN [s1 EXCEPT !.locals.lab_acronym = r.lab_acronym,
                              !.locals.bound = @ \cup {"lab_acronym"}]
              ELSE s1
    IN  IF upto_freq /\ r.jlab_code.ok
        THEN [s2 EXCEPT !.locals.lab_code = r.jlab_code.val,
                        !.locals.bound = @ \cup {"lab_code"},
                        !.jumps = Append(@, [lab_code |-> r.jlab_code.val,
                                             lab_acronym |-> r.lab_acronym,
                                             clock_code |-> r.jclock_code.val,
                                             mjd |-> r.jmjd.val,
                                             time_step |-> r.time_step.val,
                                             freq_step |-> r.freq_step.val])]
        ELSE JumpExcept(s2, f, n)

\* lines 30-90: the loop body for the line at 0-based position k of file f
LineBody(st, line, f, k) ==
    LET r == Read[line]
        s0 == DecodeWarning([st EXCEPT !.i = k], r, f, k + 1)
        s1 == IF r.clock
              THEN SlotLoop(ClockHeader(s0, r, f, k + 1), r, 0, f, k + 1)
              ELSE s0
    IN  IF ~s1.raised /\ r.jump THEN JumpBranch(s1, r, f, k + 1) ELSE s1

(***************************************************************************)
(* The batch: main's loop over args.files, one parse_clockfile call each.  *)
(***************************************************************************)
TotalLines == LET RECURSIVE Sum(_)
                  Sum(k) == IF k = 0 THEN 0 ELSE Sum(k - 1) + Len(files[k].lines)
              IN  Sum(Len(files))

Mark(kind) == [kind |-> kind, diffs |-> diffs, jumps |-> jumps, log |-> log]

Init ==
    /\ pc = "main"
    /\ files = <<>>
    /\ diffs = <<>>
    /\ jumps = <<>>
    /\ log = <<>>
    /\ locals = NoLocals
    /\ i = 0
    /\ last = [kind |-> "start", diffs |-> <<>>, jumps |-> <<>>, log |-> <<>>]
    /\ values = <<>>
    /\ steps = <<>>
    /\ cidx = 0
    /\ result = <<>>

\* A missing file that ends the batch instead of being skipped, dropping
\* what was collected.
FileNotFoundAborts ==
    /\ pc = "main"
    /\ Len(files) < MaxFiles
    /\ files' = Append(files, [exists |-> FALSE, lines |-> <<>>])
    /\ log' = Append(log, [level |-> "error", msg |-> "file not found",
                           lineno |-> <<>>, file |-> Len(files) + 1, at |-> 0])
    /\ diffs' = <<>>
    /\ jumps' = <<>>
    /\ last' = Mark("missing")
    /\ UNCHANGED <<pc, locals, i>>
    /\ UNCHANGED mainVars

\* lines 26-28: the path does not exist
FileNotFound ==
    /\ pc = "main"
    /\ Len(files) < MaxFiles
    /\ files' = Append(files, [exists |-> FALSE, lines |-> <<>>])
    /\ log' = Append(log, [level |-> "error", msg |-> "file not found",
                           lineno |-> <<>>, file |-> Len(files) + 1, at |-> 0])
    /\ last' = Mark("missing")
    /\ UNCHANGED <<pc, diffs, jumps, locals, i>>
    /\ UNCHANGED mainVars

\* line 29: the path exists and is opened; the call's locals are fresh
OpenFile ==
    /\ pc = "main"
    /\ Len(files) < MaxFiles
    /\ pc' = "parsing"
    /\ files' = Append(files, [exists |-> TRUE, lines |-> <<>>])
    /\ locals' = NoLocals
    /\ last' = Mark("open")
    /\ UNCHANGED <<diffs, jumps, log, i>>
    /\ UNCHANGED mainVars

\* line 29: the path exists and open() raises OSError (a directory, no
\* permission, the file removed since line 26); nothing in parse_clockfile
\* or main catches it
OpenFails ==
    /\ pc = "main"
    /\ Len(files) < MaxFiles
    /\ pc' = "raised"
    /\ files' = Append(files, [exists |-> TRUE, lines |-> <<>>])
    /\ last' = Mark("openfails")
    /\ UNCHANGED <<diffs, jumps, log, locals, i>>
    /\ UNCHANGED mainVars

\* lines 30-90: the file yields one more line and the loop body runs on it
ParseLine ==
    /\ pc = "parsing"
    /\ TotalLines < MaxLines
    /\ \E line \in Lines :
        LET f == Len(files)
            st == LineBody([diffs |-> diffs, jumps |-> jumps, log |-> log,
                            locals |-> locals, i |-> i, raised |-> FALSE],
                           line, f, Len(files[f].lines))
        IN  /\ files' = [files EXCEPT ![f].lines = Append(@, line)]
            /\ diffs' = st.diffs
            /\ jumps' = st.jumps
            /\ log' = st.log
            /\ locals' = st.locals
            /\ i' = st.i
            /\ pc' = IF st.raised THEN "raised" ELSE "parsing"
    /\ last' = Mark("line")
    /\ UNCHANGED mainVars

\* end of file: parse_clockfile returns
EndOfFile ==
    /\ pc = "parsing"
    /\ pc' = "main"
    /\ last' = Mark("eof")
    /\ UNCHANGED <<files, diffs, jumps, log, locals, i>>
    /\ UNCHANGED mainVars

\* lines 111-112: args.files (one path or more) is exhausted
Finish ==
    /\ pc = "main"
    /\ Len(files) >= 1
    /\ pc' = "done"
    /\ last' = Mark("finish")
    /\ UNCHANGED <<files, diffs, jumps, log, locals, i>>
    /\ UNCHANGED mainVars

Next == FileNotFound \/ OpenFile \/ OpenFails \/ ParseLine \/ EndOfFile \/ Finish

Spec == Init /\ [][Next]_vars

(***************************************************************************)
(* main, lines 114-174: the tables and the loop over clock_list.           *)
(* Numbers are exact: mjd in half days (a sample's mjd is a whole day, a   *)
(* jump's mjd need not be), val and time_step in one fixed-point unit,     *)
(* freq_step in that unit per half day.  A row keeps its DataFrame index   *)
(* idx, the position of its record in the table.  lab_code and lab_acronym *)
(* ride along untouched in the program and are left out.  val is           *)
(* meaningful when na is FALSE; na is the NaN that diff() leaves.          *)
(***************************************************************************)
SampleDomain ==
    {[clock_code |-> 1, mjd |-> 2, val |-> 0],
     [clock_code |-> 1, mjd |-> 4, val |-> 7],
     [clock_code |-> 1, mjd |-> 4, val |-> 1],
     [clock_code |-> 1, mjd |-> 6, val |-> 0],
     [clock_code |-> 2, mjd |-> 4, val |-> 7]}

JumpDomain ==
    {[clock_code |-> 1, mjd |-> 4, time_step |-> 3, freq_step |-> 1],
     [clock_code |-> 1, mjd |-> 5, time_step |-> 10, freq_step |-> -2],
     [clock_code |-> 2, mjd |-> 5, time_step |-> 10, freq_step |-> -2]}

SeqsUpTo(S, n) == UNION {[1..k -> S] : k \in 0..n}

\* lines 114-118: pd.DataFrame(...), the index being the position
Table(recs) == [k \in 1..Len(recs) |-> [idx |-> k] @@ recs[k]]

\* lines 122-127: values with its type and corrected columns, first to be concatenated
LevelRows(vals) ==
    [k \in 1..Len(vals) |->
        [idx |-> vals[k].idx, clock_code |-> vals[k].clock_code, mjd |-> vals[k].mjd,
         val |-> vals[k].val, na |-> FALSE, type |-> "utck-clock", corrected |-> FALSE]]

InitMain ==
    /\ pc = "loop"
    /\ \E recs \in SeqsUpTo(SampleDomain, MaxSamples) : values = Table(recs)
    /\ \E recs \in SeqsUpTo(JumpDomain, MaxJumps) : steps = Table(recs)
    /\ cidx = 0
    /\ result = LevelRows(values)
    /\ files = <<>>
    /\ diffs = <<>>
    /\ jumps = <<>>
    /\ log = <<>>
    /\ locals = NoLocals
    /\ i = 0
    /\ last = [kind |-> "start", diffs |-> <<>>, jumps |-> <<>>, log |-> <<>>]

RECURSIVE SortedSeq(_)
SortedSeq(S) == IF S = {} THEN <<>> ELSE <<Min(S)>> \o SortedSeq(S \ {Min(S)})

\* line 119: sorted(list(values['clock_code'].unique()))
clock_list == SortedSeq({values[k].clock_code : k \in 1..Len(values)})

\* lines 131, 133: df.loc[df['clock_code'] == clock_code]
OfClock(df, clock_code) == SelectSeq(df, LAMBDA r : r.clock_code = clock_code)

\* The orders in which the rows with positions in S can come out of a sort
\* by mjd: each time, any of the remaining rows of least mjd comes next.
RECURSIVE Orders(_, _)
Orders(rows, S) ==
    IF S = {} THEN {<<>>}
    ELSE UNION {{<<k>> \o rest : rest \in Orders(rows, S \ {k})} :
                  k \in {x \in S : \A y \in S : rows[x].mjd <= rows[y].mjd}}

\* .sort_values('mjd'): the rows in an order of ascending mjd.  The default
\* sort is not stable, so rows of equal mjd may come out in any order.
SortValues(rows) ==
    {[k \in 1..Len(rows) |-> rows[p[k]]] : p \in Orders(rows, 1..Len(rows))}

\* A mask that also takes the samples at the jump's own mjd.
MaskIncludingJumpDay(mjd, jp_mjd) == mjd <= jp_mjd

\* lines 150, 152: the mask mjds < jp_mjd
Mask(mjd, jp_mjd) == mjd < jp_mjd

\* lines 137-152: steps_corr_time and steps_corr_freq after the first k rows
\* of this_clock_steps
RECURSIVE StepsCorr(_, _, _)
StepsCorr(mjds, this_clock_steps, k) ==
    IF k = 0
    THEN [time |-> [x \in 1..Len(mjds) |-> 0], freq |-> [x \in 1..Len(mjds) |-> 0]]
    ELSE LET prev == StepsCorr(mjds, this_clock_steps, k - 1)
             jp == this_clock_steps[k]
         IN  [time |-> [x \in 1..Len(mjds) |->
                          IF Mask(mjds[x], jp.mjd)
                          THEN prev.time[x] - jp.time_step ELSE prev.time[x]],
              freq |-> [x \in 1..Len(mjds) |->
                          IF Mask(mjds[x], jp.mjd)
                          THEN prev.freq[x] - jp.freq_step * (mjds[x] - jp.mjd)
                          ELSE prev.freq[x]]]

\* lines 153-155: corrected_clock_values
Corrected(this_clock_values, corr) ==
    [k \in 1..Len(this_clock_values) |->
        [this_clock_values[k] EXCEPT !.val = @ + (corr.time[k] + corr.freq[k]),
                                     !.corrected = TRUE]]

\* A difference taken the wrong way round: element k-1 minus element k.
DiffReversed(rows, k) ==
    IF k = 1 \/ rows[k].na \/ rows[k - 1].na
    THEN [val |-> 0, na |-> TRUE]
    ELSE [val |-> rows[k - 1].val - rows[k].val, na |-> FALSE]

\* Series.diff(): element k minus element k-1, NaN where either is missing
Diff(rows, k) ==
    IF k = 1 \/ rows[k].na \/ rows[k - 1].na
    THEN [val |-> 0, na |-> TRUE]
    ELSE [val |-> rows[k].val - rows[k - 1].val, na |-> FALSE]

\* lines 157-159, 161-163, 165-167, 169-171: a copy with val differenced and type set
DiffRows(rows, type) ==
    [k \in 1..Len(rows) |->
        [rows[k] EXCEPT !.val = Diff(rows, k).val, !.na = Diff(rows, k).na,
                        !.type = type]]

\* lines 128-172: one pass of the loop over clock_list
ProcessClock ==
    /\ pc = "loop"
    /\ cidx < Len(clock_list)
    /\ LET clock_code == clock_list[cidx + 1]
       IN  \E this_clock_values \in SortValues(OfClock(LevelRows(values), clock_code)),
              this_clock_steps \in SortValues(OfClock(steps, clock_code)) :
             LET mjds == [k \in 1..Len(this_clock_values) |-> this_clock_values[k].mjd]
                 corr == StepsCorr(mjds, this_clock_steps, Len(this_clock_steps))
                 corrected_clock_values == Corrected(this_clock_values, corr)
                 diff1 == DiffRows(this_clock_values, "1diff")
                 diff2 == DiffRows(diff1, "2diff")
                 diff1_corr == DiffRows(corrected_clock_values, "1diff")
                 diff2_corr == DiffRows(diff1_corr, "2diff")
             IN  result' = result \o corrected_clock_values \o diff1 \o diff2
                                  \o diff1_corr \o diff2_corr
    /\ cidx' = cidx + 1
    /\ UNCHANGED <<pc, values, steps>>
    /\ UNCHANGED parseVars

\* line 174: the loop is over and full_result is concatenated
Concat ==
    /\ pc = "loop"
    /\ cidx = Len(clock_list)
    /\ pc' = "end"
    /\ UNCHANGED <<values, steps, cidx, result>>
    /\ UNCHANGED parseVars

NextMain == ProcessClock \/ Concat

SpecMain == InitMain /\ [][NextMain]_vars

(***************************************************************************)
(* Properties of parse_clockfile and of the batch (checked under Spec)     *)
(***************************************************************************)
\* The state just after the loop body ran on a line, and that line.
AfterLine == last.kind = "line"
TheLine == files[Len(files)].lines[Len(files[Len(files)].lines)]

\* What the latest step appended.
NewDiffs == SubSeq(diffs, Len(last.diffs) + 1, Len(diffs))
NewJumps == SubSeq(jumps, Len(last.jumps) + 1, Len(jumps))
NewLog == SubSeq(log, Len(last.log) + 1, Len(log))
Errors(l) == SelectSeq(l, LAMBDA e : e.level = "error")

SixFieldsParse(r) ==
    /\ r.jmjd.ok /\ r.jclock_code.ok /\ r.time_step.ok
    /\ r.freq_step.ok /\ r.jlab_code.ok

\* C2: no line makes parse_clockfile raise: whatever a line holds, the call
\* goes on to the next line after it.
C2_NeverRaises == AfterLine => pc = "parsing"

\* C3: a jump line whose six fields parse and whose acronym does not start
\* with an uppercase letter appends its JumpRecord and emits the acronym warning.
C3_AcronymWarned ==
    (AfterLine /\ Read[TheLine].jump /\ SixFieldsParse(Read[TheLine])
        /\ ~AcronymMatch(Read[TheLine].lab_acronym))
    => /\ Len(NewJumps) = 1
       /\ \E k \in 1..Len(NewLog) :
            NewLog[k].level = "warning" /\ NewLog[k].msg = "Check lab acronym"

\* C4: every diagnostic that carries a line number carries the 1-based
\* position of the line it is about.
C4_LineNumbers ==
    \A k \in 1..Len(log) : log[k].lineno # <<>> => log[k].lineno = <<log[k].at>>

\* C5 as stated: a line of neither shape changes neither accumulator and
\* emits no diagnostic at all.
C5_NoDiagnostic ==
    (AfterLine /\ ~Read[TheLine].clock /\ ~Read[TheLine].jump)
    => diffs = last.diffs /\ jumps = last.jumps /\ log = last.log

\* C5 amended: a line of neither shape changes neither accumulator and emits
\* no error; its only diagnostic is the one non-ASCII warning, emitted exactly
\* when the line holds a non-ASCII byte.
C5_OnlyDecodeWarning ==
    (AfterLine /\ ~Read[TheLine].clock /\ ~Read[TheLine].jump)
    => /\ diffs = last.diffs
       /\ jumps = last.jumps
       /\ pc = "parsing"
       /\ IF IsAscii(LineText[TheLine]) THEN log = last.log
          ELSE /\ Len(NewLog) = 1
               /\ SubSeq(log, 1, Len(last.log)) = last.log
               /\ NewLog[1].level = "warning"
               /\ NewLog[1].msg = "Non-ASCII char"

C5_Witness ==
    /\ AfterLine /\ ~Read[TheLine].clock /\ ~Read[TheLine].jump
    /\ ~IsAscii(LineText[TheLine])
    /\ diffs # <<>> /\ jumps # <<>>

\* The slots of a clock line that pass the length test, and those of them
\* whose clock code and value both convert.
PresentSlots(r) == {k \in 0..4 : ~r.slot[k].short}
GoodSlots(r) == {k \in PresentSlots(r) : r.slot[k].clock_code.ok /\ r.slot[k].value.ok}
SlotPairs(r) ==
    LET order == SortedSeq(GoodSlots(r))
    IN  [k \in 1..Len(order) |->
            <<r.slot[order[k]].clock_code.val, r.slot[order[k]].value.val>>]

\* C6: on a clock line every present slot that converts is appended, in slot
\* order, and every present slot that does not is skipped with one error; a
\* jump line appends one record when its six fields parse and otherwise
\* appends none and emits one error.
C6_FailureIsolation ==
    /\ (AfterLine /\ Read[TheLine].clock)
       => /\ [k \in 1..Len(NewDiffs) |-> <<NewDiffs[k].clock_code, NewDiffs[k].value>>]
                = SlotPairs(Read[TheLine])
          /\ Len(SelectSeq(NewLog, LAMBDA e : e.msg = "Cannot read clock_code or value"))
                = Cardinality(PresentSlots(Read[TheLine]) \ GoodSlots(Read[TheLine]))
    /\ (AfterLine /\ Read[TheLine].jump)
       => IF SixFieldsParse(Read[TheLine])
          THEN Len(NewJumps) = 1 /\ Errors(NewLog) = <<>>
          ELSE NewJumps = <<>> /\ Len(Errors(NewLog)) = 1

\* C7: a clock line whose mjd and lab_code parse, whose text ends before the
\* extent of slot n (0 < n <= 4) and whose slots 0..n-1 are whole and convert,
\* appends exactly n records and emits no error (nothing is said about the
\* missing slots).
C7_ShortLine ==
    \A n \in 1..4 :
        (/\ AfterLine /\ Read[TheLine].clock
         /\ Read[TheLine].mjd.ok /\ Read[TheLine].lab_code.ok
         /\ Read[TheLine].textlen < 12 + n * 18 + 18
         /\ Read[TheLine].textlen >= 12 + (n - 1) * 18 + 18
         /\ \A k \in 0..(n - 1) :
                Read[TheLine].slot[k].clock_code.ok /\ Read[TheLine].slot[k].value.ok)
        => Len(NewDiffs) = n /\ Errors(NewLog) = <<>>

\* The records one call appends for a file holding the given lines, the call
\* starting with empty accumulators.
RECURSIVE FileResult(_, _)
FileResult(lines, k) ==
    IF k = 0
    THEN [diffs |-> <<>>, jumps |-> <<>>, log |-> <<>>, locals |-> NoLocals,
          i |-> 0, raised |-> FALSE]
    ELSE LET before == FileResult(lines, k - 1)
         IN  LineBody(before, lines[k], 0, k - 1)

RECURSIVE BatchRecords(_)
BatchRecords(k) ==
    IF k = 0 THEN [diffs |-> <<>>, jumps |-> <<>>]
    ELSE LET before == BatchRecords(k - 1)
             this == FileResult(files[k].lines, Len(files[k].lines))
         IN  IF files[k].exists
             THEN [diffs |-> before.diffs \o this.diffs,
                   jumps |-> before.jumps \o this.jumps]
             ELSE before

\* C9: a missing file adds one error and leaves both accumulators as they
\* were, the batch staying ready for its next file; between files and at the
\* end the accumulators hold the records of the existing files, in file order.
C9_MissingFileSkipped ==
    /\ last.kind = "missing"
       => /\ diffs = last.diffs
          /\ jumps = last.jumps
          /\ log = Append(last.log, log[Len(log)])
          /\ log[Len(log)].level = "error"
          /\ log[Len(log)].msg = "file not found"
          /\ pc = "main"
    /\ pc \in {"main", "done"}
       => LET batch == BatchRecords(Len(files))
          IN  diffs = batch.diffs /\ jumps = batch.jumps

C9_Witness ==
    /\ pc = "done"
    /\ Len(files) = 2
    /\ ~files[1].exists /\ files[2].exists
    /\ diffs # <<>> /\ jumps # <<>>

\* C10: every record a clock line appends carries the mjd and the lab_code
\* read from that line's columns [0,5) and [6,11).
C10_OwnHeader ==
    (AfterLine /\ Read[TheLine].clock)
    => \A k \in 1..Len(NewDiffs) :
         /\ Read[TheLine].mjd.ok
         /\ NewDiffs[k].mjd = Dec(Read[TheLine].mjd.val, 0)
         /\ Read[TheLine].lab_code.ok
         /\ NewDiffs[k].lab_code = Read[TheLine].lab_code.val

(***************************************************************************)
(* Properties of the per-clock loop of main (checked under SpecMain)       *)
(***************************************************************************)
Rows(clock_code, type, corrected) ==
    SelectSeq(result, LAMBDA r : /\ r.clock_code = clock_code
                                 /\ r.type = type
                                 /\ r.corrected = corrected)

Processed == {clock_list[k] : k \in 1..cidx}
SamplesOf(clock_code) == {k \in 1..Len(values) : values[k].clock_code = clock_code}

\* The sum, over the first k jump records, of time_step + freq_step * (mjd - J.mjd)
\* for the jumps J of the clock that lie strictly after mjd.
RECURSIVE JumpSum(_, _, _)
JumpSum(clock_code, mjd, k) ==
    IF k = 0 THEN 0
    ELSE JumpSum(clock_code, mjd, k - 1)
         + (IF steps[k].clock_code = clock_code /\ mjd < steps[k].mjd
            THEN steps[k].time_step + steps[k].freq_step * (mjd - steps[k].mjd)
            ELSE 0)

\* C1: each sample of a processed clock has one corrected row, whose value is
\* the raw value minus the contributions of exactly the jumps of that clock
\* that lie strictly after the sample, whatever the order of the jump records.
C1_StepCorrection ==
    \A c \in Processed :
        LET rows == Rows(c, "utck-clock", TRUE)
        IN  /\ Len(rows) = Cardinality(SamplesOf(c))
            /\ {rows[k].idx : k \in 1..Len(rows)} = SamplesOf(c)
            /\ \A k \in 1..Len(rows) :
                 /\ rows[k].mjd = values[rows[k].idx].mjd
                 /\ ~rows[k].na
                 /\ rows[k].val = values[rows[k].idx].val
                        - JumpSum(c, rows[k].mjd, Len(steps))

C1_Witness ==
    /\ pc = "end"
    /\ \E c \in Processed :
         /\ \E a, b \in 1..Len(steps) :
              /\ steps[a].clock_code = c /\ steps[b].clock_code = c
              /\ steps[a].mjd > steps[b].mjd
              /\ \E x, y, z \in SamplesOf(c) :
                   /\ values[x].mjd < steps[b].mjd
                   /\ values[y].mjd = steps[b].mjd
                   /\ values[z].mjd > steps[a].mjd
         /\ \E k \in 1..Len(Rows(c, "utck-clock", TRUE)) :
              Rows(c, "utck-clock", TRUE)[k].val
                 # values[Rows(c, "utck-clock", TRUE)[k].idx].val

\* The level value of the sample with index idx: raw, or step-corrected.
LevelVal(idx, corrected) ==
    IF corrected
    THEN (CHOOSE r \in {result[k] : k \in 1..Len(result)} :
             r.idx = idx /\ r.type = "utck-clock" /\ r.corrected).val
    ELSE values[idx].val

\* C8: for every processed clock, from the raw values and from the corrected
\* values alike, the 1diff and 2diff rows follow the samples in ascending mjd,
\* each row keeping its sample's mjd; 1diff is undefined at the first sample
\* and v(k) - v(k-1) after it; 2diff is undefined at the first two samples and
\* (v(k) - v(k-1)) - (v(k-1) - v(k-2)) after them.
C8_Differencing ==
    \A c \in Processed : \A b \in BOOLEAN :
        LET d1 == Rows(c, "1diff", b)
            d2 == Rows(c, "2diff", b)
            v(k) == LevelVal(d1[k].idx, b)
        IN  /\ Len(d1) = Cardinality(SamplesOf(c))
            /\ Len(d2) = Len(d1)
            /\ {d1[k].idx : k \in 1..Len(d1)} = SamplesOf(c)
            /\ \A k \in 1..Len(d1) :
                 /\ d2[k].idx = d1[k].idx
                 /\ d1[k].mjd = values[d1[k].idx].mjd
                 /\ d2[k].mjd = values[d1[k].idx].mjd
                 /\ k > 1 => d1[k - 1].mjd <= d1[k].mjd
                 /\ IF k = 1 THEN d1[k].na
                    ELSE ~d1[k].na /\ d1[k].val = v(k) - v(k - 1)
                 /\ IF k <= 2 THEN d2[k].na
                    ELSE ~d2[k].na
                         /\ d2[k].val = (v(k) - v(k - 1)) - (v(k - 1) - v(k - 2))

C8_Witness ==
    /\ pc = "end"
    /\ \E c \in Processed :
         /\ Len(Rows(c, "2diff", TRUE)) = 3
         /\ ~Rows(c, "2diff", TRUE)[3].na
         /\ ~Rows(c, "2diff", FALSE)[3].na
         /\ Rows(c, "2diff", FALSE)[3].val # 0
         /\ Rows(c, "2diff", TRUE)[3].val # Rows(c, "2diff", FALSE)[3].val
         /\ Rows(c, "1diff", TRUE)[2].val # Rows(c, "1diff", FALSE)[2].val

====
